---- MODULE Spec2Model ----
(***************************************************************************)
(* Model of the DataTable widget (package datatable): the row store        *)
(* `cells`, the displayed view `cellsFiltered`, the per-column sort state  *)
(* `sortCols`, the search bar text, the column layout, the header captions *)
(* and the footer, driven by SetData, search-text changes, header clicks   *)
(* and row selection.                                                      *)
(*                                                                         *)
(* Strings are sequences of code points.  A row is a record                *)
(* [idx, columns] as in the Go struct `row`; idx is 0-based as in Go, TLA+ *)
(* sequences are 1-based, so the row with idx = i sits at D[i + 1] of the  *)
(* data D handed to SetData.                                               *)
(***************************************************************************)
EXTENDS Integers, Sequences, FiniteSets, TLC

\* ------------------------------------------------------------------ bounds
\* Largest number of rows in one SetData call.  slices.SortFunc sorts
\* slices of up to 12 elements by insertion sort, which is what SortFunc
\* below does, so MaxRows is kept below 12.
MaxRows == 3

\* Largest number of rows of a data set in the specification that keeps the
\* history of header clicks and of the render shell (SpecHist)
MaxHistRows == 2

\* ------------------------------------------------------- program constants
sortOff == 0
SortAsc == 1
SortDesc == 2

\* "↑" and "↓" as one-code-point strings
characterSortAsc == <<8593>>
characterSortDesc == <<8595>>

\* ------------------------------------------------------------------ inputs
\* "Ab" and "b": equal keys, distinct keys, mixed case
CellValues == { <<65, 98>>, <<98>> }

\* "" and "aB": the second is found in "Ab" only when both the cell and the
\* search text are lower-cased, and is not found in "b"
SearchTexts == { <<>>, <<97, 66>> }

\* Config.Columns of the modelled table: titles "F" and "S", the first
\* column auto-sized (Width 0), the second with a fixed Width of 4
ConfigColumns == << [Title |-> <<70>>, Width |-> 0], [Title |-> <<83>>, Width |-> 4] >>

\* ------------------------------------------------------------------- state
VARIABLES
    numCols,        \* DataTable.numCols
    headerCells,    \* DataTable.headerCells
    widths,         \* DataTable.widths
    layout,         \* DataTable.layout
    cells,          \* DataTable.cells (RowStore)
    cellsFiltered,  \* DataTable.cellsFiltered (View)
    sortCols,       \* DataTable.sortCols
    searchText,     \* DataTable.searchBar.Text
    captions,       \* text of the header labels DataTable.header
    footer,         \* text of DataTable.footer
    data,           \* argument of the most recent successful SetData
    op,             \* the handler that has just run, "none" once its caller has moved on
    err,            \* whether that handler returned an error
    badRows,        \* positions of the rows of its argument with the wrong width
    OnSelected,     \* DataTable.OnSelected as the last list.OnSelected found it ("nil" or
                    \* "set": the host assigns the field when it likes), "unread" otherwise
    selId,          \* id passed to the last list.OnSelected or update-item callback
    callback,       \* argument the host OnSelected was invoked with, or NoCall
    itemText,       \* label texts the last update-item callback wrote, or NoWrite
    newArgs,        \* the Config handed to New, NoArgs once the table is in use
    tapCol,         \* column (1-based) of the header click being handled, 0 if none
    tapI,           \* loop variable i (1-based) of a running OnTapped loop, 0 if none
    tapRun,         \* history: the run of header clicks on one column (SpecHist)
    shellCount,     \* history: the row count the render shell read last (SpecHist)
    refreshes,      \* calls of body.Refresh made by the handler that has just run
    mu,             \* w.mu: the holder of the write lock, the pending writers, the read holds
    pc,             \* where each thread stands when handlers run lock by lock (SpecLock)
    pendingFooter   \* the text updateFooter has formatted and not yet set (SpecLock)

vars == << numCols, headerCells, widths, layout, cells, cellsFiltered, sortCols,
           searchText, captions, footer, OnSelected, data, op, err, badRows, selId, callback,
           itemText, newArgs, tapCol, tapI, tapRun, shellCount, refreshes, mu, pc, pendingFooter >>

\* updateFooter has no text in hand
NoText == <<>>

\* the update-item callback set no label text
NoWrite == <<>>

\* the zero Config: the arguments of New are kept only until the table is used
NoArgs == [Columns |-> <<>>, SortedColumnIndex |-> 0, SortedColumnDirection |-> 0]

\* no run of header clicks yet: n clicks in a row on column col, which had
\* direction from before the first of them
NoRun == [col |-> 0, n |-> 0, from |-> 0]

\* the render shell has not read the row count
Unread == -1

\* list.OnSelected or the update-item callback indexed past the view
Fault == -2

NoCall == -1

\* ----------------------------------------------------------------- strings
\* strings.ToLower on one code point (ASCII range)
ToLowerCh(c) == IF c >= 65 /\ c <= 90 THEN c + 32 ELSE c

ToLower(s) == [i \in 1..Len(s) |-> ToLowerCh(s[i])]

\* Contains with the empty search string taken as "found nowhere"
ContainsNonEmpty(s, sub) ==
    /\ sub # <<>>
    /\ \E i \in 0..(Len(s) - Len(sub)) : SubSeq(s, i + 1, i + Len(sub)) = sub

\* strings.HasPrefix in the place of strings.Contains
ContainsAtStart(s, sub) ==
    Len(sub) <= Len(s) /\ SubSeq(s, 1, Len(sub)) = sub

\* strings.Contains(s, sub)
Contains(s, sub) ==
    \E i \in 0..(Len(s) - Len(sub)) : SubSeq(s, i + 1, i + Len(sub)) = sub

\* cmp.Compare on strings: byte-wise lexicographic order
RECURSIVE Compare(_, _)
Compare(a, b) ==
    IF a = <<>> /\ b = <<>> THEN 0
    ELSE IF a = <<>> THEN -1
    ELSE IF b = <<>> THEN 1
    ELSE IF Head(a) < Head(b) THEN -1
    ELSE IF Head(a) > Head(b) THEN 1
    ELSE Compare(Tail(a), Tail(b))

\* width of a label showing s, as reported by the toolkit
TextWidth(s) == Len(s)

Max(a, b) == IF a < b THEN b ELSE a

\* ------------------------------------------------------------------- rows
\* row{idx: i, columns: r}
Row(i, r) == [idx |-> i, columns |-> r]

\* the ascending comparison ignoring case
CmpAscIgnoreCase(a, b, col) == Compare(ToLower(a.columns[col]), ToLower(b.columns[col]))

\* the comparison functions handed to slices.SortFunc by applySort;
\* col is the 1-based column
CmpAsc(a, b, col) == Compare(a.columns[col], b.columns[col])

\* the descending comparison with its arguments in ascending order
CmpDescAsAsc(a, b, col) == Compare(a.columns[col], b.columns[col])

CmpDesc(a, b, col) == Compare(b.columns[col], a.columns[col])

CmpRows(a, b, col, dir) == IF dir = SortAsc THEN CmpAsc(a, b, col) ELSE CmpDesc(a, b, col)

\* the inner loop moving the element left past its equals
RECURSIVE SiftLeftPastEqual(_, _, _, _)
SiftLeftPastEqual(s, j, col, dir) ==
    IF j > 1 /\ CmpRows(s[j], s[j - 1], col, dir) <= 0
    THEN SiftLeftPastEqual([s EXCEPT ![j] = s[j - 1], ![j - 1] = s[j]], j - 1, col, dir)
    ELSE s

\* the inner loop copying the element left without moving its neighbour right
RECURSIVE SiftLeftOverwrite(_, _, _, _)
SiftLeftOverwrite(s, j, col, dir) ==
    IF j > 1 /\ CmpRows(s[j], s[j - 1], col, dir) < 0
    THEN SiftLeftOverwrite([s EXCEPT ![j - 1] = s[j]], j - 1, col, dir)
    ELSE s

\* inner loop of the insertion sort: the element at position j moves left
\* while it compares less than its left neighbour
RECURSIVE SiftLeft(_, _, _, _)
SiftLeft(s, j, col, dir) ==
    IF j > 1 /\ CmpRows(s[j], s[j - 1], col, dir) < 0
    THEN SiftLeft([s EXCEPT ![j] = s[j - 1], ![j - 1] = s[j]], j - 1, col, dir)
    ELSE s

\* outer loop of the insertion sort, from position i to the end
RECURSIVE InsertionSort(_, _, _, _)
InsertionSort(s, i, col, dir) ==
    IF i > Len(s) THEN s
    ELSE InsertionSort(SiftLeft(s, i, col, dir), i + 1, col, dir)

\* slices.SortFunc(w.cells, cmp) on a slice of at most 12 elements
SortFunc(s, col, dir) == InsertionSort(s, 2, col, dir)

\* second loop of applySort: for every column that is not off, in column
\* order, sort the row store by that column
RECURSIVE SortByCols(_, _, _)
SortByCols(cs, sc, i) ==
    IF i > Len(sc) THEN cs
    ELSE IF sc[i] = SortAsc \/ sc[i] = SortDesc
         THEN SortByCols(SortFunc(cs, i, sc[i]), sc, i + 1)
         ELSE SortByCols(cs, sc, i + 1)

\* applySort, the row store it leaves
applySortCells(cs, sc) == SortByCols(cs, sc, 1)

\* applySort with the two glyphs exchanged
applySortCaptionsSwapped(hc, sc) ==
    [i \in 1..Len(hc) |->
        IF sc[i] = sortOff THEN hc[i]
        ELSE IF sc[i] = SortAsc THEN hc[i] \o characterSortDesc
        ELSE IF sc[i] = SortDesc THEN hc[i] \o characterSortAsc
        ELSE <<>>]

\* applySort, the header captions it sets
applySortCaptions(hc, sc) ==
    [i \in 1..Len(hc) |->
        IF sc[i] = sortOff THEN hc[i]
        ELSE IF sc[i] = SortAsc THEN hc[i] \o characterSortAsc
        ELSE IF sc[i] = SortDesc THEN hc[i] \o characterSortDesc
        ELSE <<>>]

\* the match test asking every column to contain the search text
rowMatchesAllColumns(r, search) ==
    \A i \in 1..Len(r.columns) : Contains(ToLower(r.columns[i]), ToLower(search))

\* the match test looking at the first column only
rowMatchesFirstColumn(r, search) ==
    Contains(ToLower(r.columns[1]), ToLower(search))

\* the match test comparing whole cells with the search text
rowMatchesWholeCell(r, search) ==
    \E i \in 1..Len(r.columns) : ToLower(r.columns[i]) = ToLower(search)

\* the match test of applyFilterAndSort: some column contains the
\* lower-cased search text
rowMatches(r, search) ==
    \E i \in 1..Len(r.columns) : Contains(ToLower(r.columns[i]), ToLower(search))

\* the selection loop numbering the kept rows by their place in the selection
filterSelectionRenumbered(cs, search) ==
    LET sel == SelectSeq(cs, LAMBDA r : rowMatches(r, search))
    IN  [i \in 1..Len(sel) |-> [idx |-> i - 1, columns |-> sel[i].columns]]

\* the selection loop of applyFilterAndSort
filterSelection(cs, search) == SelectSeq(cs, LAMBDA r : rowMatches(r, search))

\* filterRows of the per-column variant (NewDataTable): a row of plain
\* columns is kept when every column with a filter text contains it
filterRowsMatch(columns, filter) ==
    \A i \in 1..Len(columns) :
        ~(filter[i] # <<>> /\ ~Contains(ToLower(columns[i]), ToLower(filter[i])))

\* updateFooter taking a full view for a filtered one
updateFooterFilteredWhenEqual(cf, cs) ==
    IF Len(cf) <= Len(cs)
    THEN << Len(cf), "of", Len(cs), "entries (filtered)" >>
    ELSE << Len(cs), "entries" >>

\* updateFooter: the text set on the footer label
updateFooter(cf, cs) ==
    IF Len(cf) < Len(cs)
    THEN << Len(cf), "of", Len(cs), "entries (filtered)" >>
    ELSE << Len(cs), "entries" >>

\* headersForWidthsCalc
headersForWidthsCalc(header) == [i \in 1..Len(header) |-> header[i] \o characterSortAsc]

\* minimalColumnWidths, one column: the header only when a width is
\* configured, every row otherwise
RECURSIVE ColumnWidth(_, _, _, _)
ColumnWidth(cs, x, y, w) ==
    IF y > Len(cs) THEN w
    ELSE ColumnWidth(cs, x, y + 1, Max(TextWidth(cs[y][x]), w))

\* minimalColumnWidths counting the columns by the rows it was handed
minimalColumnWidthsByRows(cs, ws) ==
    [x \in 1..(IF Len(cs) < Len(cs[1]) THEN Len(cs) ELSE Len(cs[1])) |->
        IF ws[x] # 0
        THEN ColumnWidth(SubSeq(cs, 1, 1), x, 1, ws[x])
        ELSE ColumnWidth(cs, x, 1, ws[x])]

minimalColumnWidths(cs, ws) ==
    [x \in 1..Len(cs[1]) |->
        IF ws[x] # 0
        THEN ColumnWidth(SubSeq(cs, 1, 1), x, 1, ws[x])
        ELSE ColumnWidth(cs, x, 1, ws[x])]

\* ------------------------------------------------------------ construction
\* defineWidths for a width vector of numCols entries
defineWidths(ws, n) == IF Len(ws) = 0 THEN [i \in 1..n |-> 0] ELSE ws

\* the sort state of New without the default for a direction left unset
NewSortColsNoDefault(n, idx, dir) ==
    [i \in 1..n |-> IF i = idx + 1 THEN dir ELSE sortOff]

\* the sort state New leaves: every column off but the configured one;
\* idx is Config.SortedColumnIndex (0-based), dir Config.SortedColumnDirection
NewSortCols(n, idx, dir) ==
    [i \in 1..n |-> IF i = idx + 1
                    THEN (IF dir = sortOff THEN SortAsc ELSE dir)
                    ELSE sortOff]

\* the checks of New letting the index one past the last column through
NewFailsIndexOffByOne(columns, idx) ==
    Len(columns) = 0 \/ idx < 0 \/ idx > Len(columns)

\* the checks of New: no columns, or an initial sort column out of range
\* (defineWidths is handed one width per column and cannot fail)
NewFails(columns, idx) ==
    Len(columns) = 0 \/ idx < 0 \/ idx >= Len(columns)

\* New(config) returning (nil, error): there is no table
NewError ==
    /\ numCols = 0
    /\ headerCells = <<>>
    /\ widths = <<>>
    /\ layout = <<>>
    /\ sortCols = <<>>
    /\ captions = <<>>
    /\ err = TRUE

\* New(config) returning the table
NewOk(columns, idx, dir) ==
    LET n == Len(columns)
        hc == [i \in 1..n |-> columns[i].Title]
        ws == defineWidths([i \in 1..n |-> columns[i].Width], n)
    IN  /\ numCols = n
        /\ headerCells = hc
        /\ widths = ws
        /\ layout = minimalColumnWidths(<< headersForWidthsCalc(hc) >>, ws)
        /\ sortCols = NewSortCols(n, idx, dir)
        /\ captions = hc
        /\ err = FALSE

\* New(config)
New(columns, idx, dir) ==
    /\ IF NewFails(columns, idx) THEN NewError ELSE NewOk(columns, idx, dir)
    /\ newArgs = [Columns |-> columns, SortedColumnIndex |-> idx, SortedColumnDirection |-> dir]
    /\ footer = <<>>
    /\ searchText = <<>>
    /\ cells = <<>>
    /\ cellsFiltered = <<>>
    /\ OnSelected = "unread"
    /\ data = <<>>
    /\ op = "New"
    /\ badRows = {}
    /\ selId = NoCall
    /\ callback = NoCall
    /\ itemText = NoWrite
    /\ tapCol = 0
    /\ tapI = 0
    /\ tapRun = NoRun
    /\ shellCount = Unread
    /\ refreshes = 0
    /\ mu = [w |-> "none", ww |-> {}, r |-> 0]
    /\ pc = [ui |-> "idle", bg |-> "idle"]
    /\ pendingFooter = NoText

\* column lists a caller may configure: none, or the two columns
ConfigInputs == { <<>>, ConfigColumns }

\* initial sort columns a caller may configure: in range, one below, one above
IndexInputs == (0 - 1)..Len(ConfigColumns)

Init ==
    \E columns \in ConfigInputs, idx \in IndexInputs, dir \in {sortOff, SortAsc, SortDesc} :
        New(columns, idx, dir)

\* -------------------------------------------------------------- operations
\* number of columns of the configured table
ConfigNumCols == Len(ConfigColumns)

\* rows of the right width
GoodRows == [1..ConfigNumCols -> CellValues]

\* rows of the wrong width: one column short, one column too many
BadRows ==
    { [i \in 1..(ConfigNumCols - 1) |-> <<98>>], [i \in 1..(ConfigNumCols + 1) |-> <<98>>] }

\* data sets a caller may hand to SetData: every data set of up to MaxRows
\* good rows, and every mix of bad rows and one good row that holds a bad
\* row (what a rejected data set holds in its good rows is never stored)
DataInputs ==
    UNION { [1..n -> GoodRows] : n \in 0..MaxRows }
        \cup { D \in UNION { [1..n -> BadRows \cup { [i \in 1..ConfigNumCols |-> <<98>>] }] : n \in 1..MaxRows } :
                 \E i \in 1..Len(D) : D[i] \in BadRows }

\* the data sets of the specification with history: up to MaxHistRows rows,
\* each "b","b" or "Ab","b", and one rejected data set
HistInputs ==
    UNION { [1..n -> { << <<98>>, <<98>> >>, << <<65, 98>>, <<98>> >> }] : n \in 0..MaxHistRows }
        \cup { << << <<98>> >> >> }

\* the table is handed a new event only after the previous handler returned;
\* a failed New leaves no table to hand events to
Idle == op = "none" \/ (op = "New" /\ ~err)

\* the toolkit runs one event handler at a time
UiIdle == Idle /\ tapI = 0

\* the error path storing the rows in front of the first bad row
SetDataErrorPartial(D) ==
    /\ \E i \in 1..Len(D) : Len(D[i]) # numCols
    /\ err' = TRUE
    /\ LET bad == CHOOSE i \in 1..Len(D) :
                    Len(D[i]) # numCols /\ \A j \in 1..(i - 1) : Len(D[j]) = numCols
       IN  cells' = [i \in 1..(bad - 1) |-> [idx |-> i - 1, columns |-> D[i]]]
    /\ UNCHANGED << numCols, headerCells, widths, layout, cellsFiltered,
                    sortCols, searchText, captions, footer, OnSelected, data >>

\* SetData(cells), the error path: some row has the wrong number of columns
SetDataError(D) ==
    /\ \E i \in 1..Len(D) : Len(D[i]) # numCols
    /\ err' = TRUE
    /\ UNCHANGED << numCols, headerCells, widths, layout, cells, cellsFiltered,
                    sortCols, searchText, captions, footer, OnSelected, data >>

\* the success path putting the sort state back to what New starts with
SetDataOkResetSort(D) ==
    /\ \A i \in 1..Len(D) : Len(D[i]) = numCols
    /\ sortCols' = NewSortCols(numCols, 0, sortOff)
    /\ LET rows == [i \in 1..Len(D) |-> Row(i - 1, D[i])]
           sorted == applySortCells(rows, sortCols')
       IN  /\ cells' = sorted
           /\ cellsFiltered' = rows
           /\ layout' = minimalColumnWidths(<< headersForWidthsCalc(headerCells) >> \o D, widths)
           /\ captions' = applySortCaptions(headerCells, sortCols')
           /\ footer' = updateFooter(rows, sorted)
    /\ data' = D
    /\ err' = FALSE
    /\ UNCHANGED << numCols, headerCells, widths, searchText, OnSelected >>

\* SetData(cells), the success path: the view is cloned from the row store
\* before applySort sorts the row store
SetDataOk(D) ==
    /\ \A i \in 1..Len(D) : Len(D[i]) = numCols
    /\ LET rows == [i \in 1..Len(D) |-> Row(i - 1, D[i])]
           sorted == applySortCells(rows, sortCols)
       IN  /\ cells' = sorted
           /\ cellsFiltered' = rows
           /\ layout' = minimalColumnWidths(<< headersForWidthsCalc(headerCells) >> \o D, widths)
           /\ captions' = applySortCaptions(headerCells, sortCols)
           /\ footer' = updateFooter(rows, sorted)
    /\ data' = D
    /\ err' = FALSE
    /\ UNCHANGED << numCols, headerCells, widths, sortCols, searchText, OnSelected >>

\* SetData refreshing the list only when it has stored the data
SetDataRefreshesOnSuccess(D) ==
    IF \E i \in 1..Len(D) : Len(D[i]) # numCols THEN 0 ELSE 1

\* calls of body.Refresh in SetData(D): the one deferred on entry, in front
\* of the validation
SetDataRefreshes(D) == 1

\* SetData(D) for some D of Inputs; any goroutine may call it, also while
\* the loop of a header click is running
SetDataFrom(Inputs) ==
    /\ Idle
    /\ \E D \in Inputs :
        /\ SetDataError(D) \/ SetDataOk(D)
        /\ badRows' = { i \in 1..Len(D) : Len(D[i]) # numCols }
        /\ refreshes' = SetDataRefreshes(D)
    /\ op' = "SetData"
    /\ selId' = NoCall
    /\ callback' = NoCall
    /\ itemText' = NoWrite
    /\ newArgs' = NoArgs
    /\ UNCHANGED << tapCol, tapI, tapRun, shellCount, mu, pc, pendingFooter >>

SetData == SetDataFrom(DataInputs)

HistSetData == SetDataFrom(HistInputs)

\* applyFilterAndSort storing the selection as the row store too
applyFilterAndSortStoreSelection(search, sc) ==
    LET sorted == applySortCells(cells, sc)
        selection == filterSelection(sorted, search)
    IN  /\ cells' = selection
        /\ captions' = applySortCaptions(headerCells, sc)
        /\ cellsFiltered' = selection
        /\ footer' = updateFooter(selection, selection)

\* applyFilterAndSort appending the selection to the view it finds
applyFilterAndSortAppend(search, sc) ==
    LET sorted == applySortCells(cells, sc)
        selection == cellsFiltered \o filterSelection(sorted, search)
    IN  /\ cells' = sorted
        /\ captions' = applySortCaptions(headerCells, sc)
        /\ cellsFiltered' = selection
        /\ footer' = updateFooter(selection, sorted)

\* applyFilterAndSort taking the selection from the row store before it is sorted
applyFilterAndSortFilterFirst(search, sc) ==
    LET sorted == applySortCells(cells, sc)
        selection == filterSelection(cells, search)
    IN  /\ cells' = sorted
        /\ captions' = applySortCaptions(headerCells, sc)
        /\ cellsFiltered' = selection
        /\ footer' = updateFooter(selection, sorted)

\* applyFilterAndSort(search) with the sort state sc
applyFilterAndSort(search, sc) ==
    LET sorted == applySortCells(cells, sc)
        selection == filterSelection(sorted, search)
    IN  /\ cells' = sorted
        /\ captions' = applySortCaptions(headerCells, sc)
        /\ cellsFiltered' = selection
        /\ footer' = updateFooter(selection, sorted)

\* the search bar's OnChanged(s)
SearchChanged(s) ==
    /\ UiIdle
    /\ searchText' = s
    /\ applyFilterAndSort(s, sortCols)
    /\ op' = "Search"
    /\ err' = FALSE
    /\ badRows' = {}
    /\ selId' = NoCall
    /\ callback' = NoCall
    /\ itemText' = NoWrite
    /\ newArgs' = NoArgs
    /\ UNCHANGED << numCols, headerCells, widths, layout, sortCols, OnSelected, data,
                    tapCol, tapI, tapRun, shellCount >>
    /\ refreshes' = 1
    /\ UNCHANGED << mu, pc, pendingFooter >>

\* the loop of OnTapped stepping the clicked column through off, asc, desc, off
TappedSortColsWrap(sc, col) ==
    [i \in 1..Len(sc) |->
        IF i = col
        THEN (IF sc[col] = SortDesc THEN sortOff ELSE sc[col] + 1)
        ELSE sortOff]

\* the loop of OnTapped taking a column that is off to descending first
TappedSortColsStartDesc(sc, col) ==
    [i \in 1..Len(sc) |->
        IF i = col
        THEN (IF sc[col] = SortAsc THEN SortDesc
              ELSE IF sc[col] = SortDesc THEN SortAsc ELSE SortDesc)
        ELSE sortOff]

\* the loop of OnTapped leaving the other columns as they are
TappedSortColsKeepOthers(sc, col) ==
    [i \in 1..Len(sc) |->
        IF i = col
        THEN (IF sc[col] = SortDesc THEN SortAsc ELSE sc[col] + 1)
        ELSE sc[i]]

\* the sort state after the loop of a header label's OnTapped
TappedSortCols(sc, col) ==
    [i \in 1..Len(sc) |->
        IF i = col
        THEN (IF sc[col] = SortDesc THEN SortAsc ELSE sc[col] + 1)
        ELSE sortOff]

\* OnTapped of the header label of column col (1-based)
HeaderTapped(col) ==
    /\ UiIdle
    /\ sortCols' = TappedSortCols(sortCols, col)
    /\ applyFilterAndSort(searchText, sortCols')
    /\ op' = "Tap"
    /\ tapCol' = col
    /\ err' = FALSE
    /\ badRows' = {}
    /\ selId' = NoCall
    /\ callback' = NoCall
    /\ itemText' = NoWrite
    /\ newArgs' = NoArgs
    /\ UNCHANGED << numCols, headerCells, widths, layout, searchText, OnSelected, data,
                    tapI, shellCount >>
    /\ refreshes' = 1
    /\ UNCHANGED << mu, pc, pendingFooter >>

\* a header click, its place in the run of clicks not recorded
Tap(col) == HeaderTapped(col) /\ UNCHANGED tapRun

\* the run of clicks after a click on column col that had direction dir: a
\* fourth click in a row, or a click on another column, starts a new run
NextRun(run, col, dir) ==
    IF run.col = col /\ run.n < 3
    THEN [run EXCEPT !.n = run.n + 1]
    ELSE [col |-> col, n |-> 1, from |-> dir]

\* a header click, recorded in the run of clicks
HistTap(col) == HeaderTapped(col) /\ tapRun' = NextRun(tapRun, col, sortCols[col])

\* one iteration of the loop of OnTapped, for i (1-based) and clicked column col
TapStepSortCols(sc, col, i) ==
    [sc EXCEPT ![i] = IF i = col
                      THEN (IF sc[col] = SortDesc THEN SortAsc ELSE sc[col] + 1)
                      ELSE sortOff]

\* OnTapped of column col is entered: i := 0
TapBegin(col) ==
    /\ UiIdle
    /\ tapCol' = col
    /\ tapI' = 1
    /\ op' = "none"
    /\ newArgs' = NoArgs
    /\ UNCHANGED << numCols, headerCells, widths, layout, cells, cellsFiltered, sortCols,
                    searchText, captions, footer, OnSelected, data, err, badRows, selId,
                    callback, itemText, tapRun, shellCount >>
    /\ UNCHANGED << refreshes, mu, pc, pendingFooter >>

\* the body of the loop of OnTapped runs once, outside the lock
TapStep ==
    /\ Idle
    /\ tapI \in 1..numCols
    /\ sortCols' = TapStepSortCols(sortCols, tapCol, tapI)
    /\ tapI' = tapI + 1
    /\ UNCHANGED << numCols, headerCells, widths, layout, cells, cellsFiltered,
                    searchText, captions, footer, OnSelected, data, op, err, badRows, selId,
                    callback, itemText, newArgs, tapCol, tapRun, shellCount >>
    /\ UNCHANGED << refreshes, mu, pc, pendingFooter >>

\* the loop of OnTapped is over: applyFilterAndSort(searchBar.Text)
TapFinish ==
    /\ Idle
    /\ tapI = numCols + 1
    /\ applyFilterAndSort(searchText, sortCols)
    /\ tapI' = 0
    /\ op' = "Tap"
    /\ err' = FALSE
    /\ badRows' = {}
    /\ selId' = NoCall
    /\ callback' = NoCall
    /\ itemText' = NoWrite
    /\ UNCHANGED << numCols, headerCells, widths, layout, sortCols, searchText, OnSelected,
                    data, newArgs, tapCol, tapRun, shellCount >>
    /\ refreshes' = 1
    /\ UNCHANGED << mu, pc, pendingFooter >>

\* list.OnSelected handing the view index to the host
SelectedArgViewIndex(id, handler) ==
    IF handler = "nil" THEN NoCall
    ELSE IF id >= Len(cellsFiltered) THEN NoCall
    ELSE id

\* list.OnSelected letting the id one past the last row of the view through
SelectedArgGuardOffByOne(id, handler) ==
    IF handler = "nil" THEN NoCall
    ELSE IF id > Len(cellsFiltered) THEN NoCall
    ELSE IF id = Len(cellsFiltered) THEN Fault
    ELSE cellsFiltered[id + 1].idx

\* the argument list.OnSelected(id) passes to the host callback (id is
\* 0-based), NoCall when it returns without calling it
SelectedArg(id, handler) ==
    IF handler = "nil" THEN NoCall
    ELSE IF id >= Len(cellsFiltered) THEN NoCall
    ELSE cellsFiltered[id + 1].idx

\* list.OnSelected(id), with handler the value of w.OnSelected
RowSelected(id, handler) ==
    /\ UiIdle
    /\ OnSelected' = handler
    /\ callback' = SelectedArg(id, handler)
    /\ selId' = id
    /\ op' = "Select"
    /\ err' = FALSE
    /\ badRows' = {}
    /\ itemText' = NoWrite
    /\ newArgs' = NoArgs
    /\ UNCHANGED << numCols, headerCells, widths, layout, cells, cellsFiltered,
                    sortCols, searchText, captions, footer, data,
                    tapCol, tapI, tapRun, shellCount >>
    /\ refreshes' = 0
    /\ UNCHANGED << mu, pc, pendingFooter >>

\* the list's length callback: the render shell reads the row count
ShellLength ==
    /\ UiIdle
    /\ shellCount' = Len(cellsFiltered)
    /\ op' = "none"
    /\ newArgs' = NoArgs
    /\ UNCHANGED << numCols, headerCells, widths, layout, cells, cellsFiltered, sortCols,
                    searchText, captions, footer, OnSelected, data, err, badRows, selId,
                    callback, itemText, tapCol, tapI, tapRun >>
    /\ UNCHANGED << refreshes, mu, pc, pendingFooter >>

\* the update-item callback letting the id one past the last row through
UpdateItemTextGuardOffByOne(id) ==
    IF id > Len(cellsFiltered) THEN NoWrite
    ELSE IF id = Len(cellsFiltered) THEN << << Fault >> >>
    ELSE cellsFiltered[id + 1].columns

\* the texts the update-item callback sets on the labels of the row
\* template for id (0-based), NoWrite when it returns without setting any
UpdateItemText(id) ==
    IF id >= Len(cellsFiltered) THEN NoWrite
    ELSE cellsFiltered[id + 1].columns

\* the list's update-item callback for id, a row below the count the render
\* shell read last
UpdateItem(id) ==
    /\ UiIdle
    /\ id < shellCount
    /\ itemText' = UpdateItemText(id)
    /\ selId' = id
    /\ op' = "Update"
    /\ err' = FALSE
    /\ badRows' = {}
    /\ callback' = NoCall
    /\ newArgs' = NoArgs
    /\ UNCHANGED << numCols, headerCells, widths, layout, cells, cellsFiltered, sortCols,
                    searchText, captions, footer, OnSelected, data,
                    tapCol, tapI, tapRun, shellCount >>
    /\ refreshes' = 0
    /\ UNCHANGED << mu, pc, pendingFooter >>

\* the rows rs of the table after the caller stored v in column c of row i
\* (0-based) of its rows value: a row of the table holds the caller's slice
\* of columns, not a copy, and the view holds the same slices as the store
WriteThrough(rs, i, c, v) ==
    [k \in 1..Len(rs) |->
        IF rs[k].idx = i THEN [rs[k] EXCEPT !.columns[c] = v] ELSE rs[k]]

\* the caller changes a cell of the rows value it handed to the last
\* successful SetData
CallerWrites(i, c, v) ==
    /\ UiIdle
    /\ i \in 1..Len(data)
    /\ c \in 1..numCols
    /\ v # data[i][c]
    /\ data' = [data EXCEPT ![i][c] = v]
    /\ cells' = WriteThrough(cells, i - 1, c, v)
    /\ cellsFiltered' = WriteThrough(cellsFiltered, i - 1, c, v)
    /\ op' = "CallerWrites"
    /\ err' = FALSE
    /\ badRows' = {}
    /\ selId' = NoCall
    /\ callback' = NoCall
    /\ itemText' = NoWrite
    /\ newArgs' = NoArgs
    /\ UNCHANGED << numCols, headerCells, widths, layout, sortCols,
                    searchText, captions, footer, OnSelected,
                    tapCol, tapI, tapRun, shellCount >>
    /\ refreshes' = 0
    /\ UNCHANGED << mu, pc, pendingFooter >>

\* the guard of columnsLayout.Layout: fewer widths than objects to place
LayoutPanics(cl, objects) == Len(cl) < objects

\* a layout pass over the header or a row of the list, containers of
\* numCols objects each; the pass panics when the guard fires
Layout ==
    /\ UiIdle
    /\ op' = IF LayoutPanics(layout, numCols) THEN "panic" ELSE "Layout"
    /\ err' = FALSE
    /\ badRows' = {}
    /\ selId' = NoCall
    /\ callback' = NoCall
    /\ itemText' = NoWrite
    /\ newArgs' = NoArgs
    /\ UNCHANGED << numCols, headerCells, widths, layout, cells, cellsFiltered, sortCols,
                    searchText, captions, footer, OnSelected, data,
                    tapCol, tapI, tapRun, shellCount >>
    /\ refreshes' = 0
    /\ UNCHANGED << mu, pc, pendingFooter >>

\* the handler has returned and its caller goes on: the record of the call
\* (return value, callback argument, texts written) is dropped, the table
\* is untouched
Returned ==
    /\ op \in {"SetData", "Search", "Tap", "Select", "Update", "Layout", "CallerWrites"}
    /\ op' = "none"
    /\ err' = FALSE
    /\ badRows' = {}
    /\ selId' = NoCall
    /\ callback' = NoCall
    /\ itemText' = NoWrite
    /\ OnSelected' = "unread"
    /\ tapCol' = IF tapI = 0 THEN 0 ELSE tapCol
    /\ UNCHANGED << numCols, headerCells, widths, layout, cells, cellsFiltered,
                    sortCols, searchText, captions, footer, data,
                    newArgs, tapI, tapRun, shellCount >>
    /\ refreshes' = 0
    /\ UNCHANGED << mu, pc, pendingFooter >>

Next ==
    \/ SetData
    \/ \E s \in SearchTexts : SearchChanged(s)
    \/ \E col \in 1..numCols : Tap(col)
    \/ \E id \in 0..MaxRows, handler \in {"nil", "set"} : RowSelected(id, handler)
    \/ Returned

Spec == Init /\ [][Next]_vars

\* ------------------------------------------------ handlers lock by lock
\* the goroutines: the toolkit's event thread and one other caller of SetData
Threads == {"ui", "bg"}

\* the variables no step of SpecLock writes
lockFrame == << numCols, headerCells, widths, op, newArgs, itemText, tapRun, shellCount, refreshes >>

\* those and the text updateFooter has in hand
lockFrameText == << lockFrame, pendingFooter >>

\* w.mu.Lock() by t goes through: nobody holds the lock for writing or reading
CanLock(t) == t \in mu.ww /\ mu.w = "none" /\ mu.r = 0

\* w.mu.RLock() goes through: no writer holds the lock or waits for it
CanRLock == mu.w = "none" /\ mu.ww = {}

\* t calls w.mu.Lock() and waits
CallLock(t) == mu' = [mu EXCEPT !.ww = mu.ww \cup {t}]

\* the deferred Unlock left to run after the refresh
UnlockAfterRefresh(m) == m

\* w.mu.Unlock(): the deferred call that ends the critical section, ahead
\* of the refresh
Unlock(m) == [m EXCEPT !.w = "none"]

\* the critical section of applyFilterAndSort(search)
applyFilterAndSortLocked(search, sc) ==
    LET sorted == applySortCells(cells, sc)
    IN  /\ cells' = sorted
        /\ captions' = applySortCaptions(headerCells, sc)
        /\ cellsFiltered' = filterSelection(sorted, search)

\* the search bar's OnChanged(s) is entered and calls applyFilterAndSort(s)
UiSearch(s) ==
    /\ pc.ui = "idle"
    /\ searchText' = s
    /\ pc' = [pc EXCEPT !.ui = "afs.Lock"]
    /\ CallLock("ui")
    /\ UNCHANGED << lockFrameText, layout, cells, cellsFiltered, sortCols, captions, footer, data,
                    err, badRows, OnSelected, selId, callback, tapCol, tapI >>

\* OnTapped of column col is entered
UiTapBegin(col) ==
    /\ pc.ui = "idle"
    /\ tapCol' = col
    /\ tapI' = 1
    /\ pc' = [pc EXCEPT !.ui = "tap.loop"]
    /\ UNCHANGED << lockFrameText, layout, cells, cellsFiltered, sortCols, searchText, captions,
                    footer, data, err, badRows, OnSelected, selId, callback, mu >>

\* one iteration of the loop of OnTapped: no lock is taken
UiTapStep ==
    /\ pc.ui = "tap.loop"
    /\ tapI \in 1..numCols
    /\ sortCols' = TapStepSortCols(sortCols, tapCol, tapI)
    /\ tapI' = tapI + 1
    /\ UNCHANGED << lockFrameText, layout, cells, cellsFiltered, searchText, captions, footer,
                    data, err, badRows, OnSelected, selId, callback, tapCol, mu, pc >>

\* the loop of OnTapped is over and applyFilterAndSort(searchBar.Text) is called
UiTapEnd ==
    /\ pc.ui = "tap.loop"
    /\ tapI = numCols + 1
    /\ tapI' = 0
    /\ tapCol' = 0
    /\ pc' = [pc EXCEPT !.ui = "afs.Lock"]
    /\ CallLock("ui")
    /\ UNCHANGED << lockFrameText, layout, cells, cellsFiltered, sortCols, searchText, captions,
                    footer, data, err, badRows, OnSelected, selId, callback >>

\* applyFilterAndSort: w.mu.Lock() returns
UiAfsAcquire ==
    /\ pc.ui = "afs.Lock"
    /\ CanLock("ui")
    /\ mu' = [mu EXCEPT !.w = "ui", !.ww = mu.ww \ {"ui"}]
    /\ pc' = [pc EXCEPT !.ui = "afs.locked"]
    /\ UNCHANGED << lockFrameText, layout, cells, cellsFiltered, sortCols, searchText, captions,
                    footer, data, err, badRows, OnSelected, selId, callback, tapCol, tapI >>

\* applyFilterAndSort: the critical section and the deferred Unlock
UiAfsBody ==
    /\ pc.ui = "afs.locked"
    /\ applyFilterAndSortLocked(searchText, sortCols)
    /\ mu' = Unlock(mu)
    /\ pc' = [pc EXCEPT !.ui = "afs.updateFooter"]
    /\ UNCHANGED << lockFrameText, layout, sortCols, searchText, footer, data, err, badRows,
                    OnSelected, selId, callback, tapCol, tapI >>

\* applyFilterAndSort: w.updateFooter() after the lock is released reads
\* the two lengths and formats the text
UiAfsFooter ==
    /\ pc.ui = "afs.updateFooter"
    /\ pendingFooter' = updateFooter(cellsFiltered, cells)
    /\ pc' = [pc EXCEPT !.ui = "afs.SetText"]
    /\ UNCHANGED << lockFrame, layout, cells, cellsFiltered, sortCols, searchText, captions,
                    footer, data, err, badRows, OnSelected, selId, callback, tapCol, tapI, mu >>

\* applyFilterAndSort: updateFooter sets the text it has formatted
UiAfsSetText ==
    /\ pc.ui = "afs.SetText"
    /\ footer' = pendingFooter
    /\ pendingFooter' = NoText
    /\ pc' = [pc EXCEPT !.ui = "afs.Refresh"]
    /\ UNCHANGED << lockFrame, layout, cells, cellsFiltered, sortCols, searchText, captions,
                    data, err, badRows, OnSelected, selId, callback, tapCol, tapI, mu >>

\* applyFilterAndSort: w.body.Refresh(), in which the list reads the row
\* count under the read lock
UiAfsRefresh ==
    /\ pc.ui = "afs.Refresh"
    /\ CanRLock
    /\ pc' = [pc EXCEPT !.ui = "idle"]
    /\ UNCHANGED << lockFrameText, layout, cells, cellsFiltered, sortCols, searchText, captions,
                    footer, data, err, badRows, OnSelected, selId, callback, tapCol, tapI, mu >>

\* what the host's OnSelected does with the table: nothing, a call of
\* SetData, or a call of Refresh
HostCallbacks == {"set", "calls SetData", "calls Refresh"}

\* list.OnSelected(id) is entered with w.OnSelected set and calls w.mu.RLock()
UiSelect(id, handler) ==
    /\ pc.ui = "idle"
    /\ OnSelected' = handler
    /\ selId' = id
    /\ callback' = NoCall
    /\ pc' = [pc EXCEPT !.ui = "sel.RLock"]
    /\ UNCHANGED << lockFrameText, layout, cells, cellsFiltered, sortCols, searchText, captions,
                    footer, data, err, badRows, tapCol, tapI, mu >>

\* list.OnSelected: w.mu.RLock() returns
UiSelAcquire ==
    /\ pc.ui = "sel.RLock"
    /\ CanRLock
    /\ mu' = [mu EXCEPT !.r = mu.r + 1]
    /\ pc' = [pc EXCEPT !.ui = "sel.locked"]
    /\ UNCHANGED << lockFrameText, layout, cells, cellsFiltered, sortCols, searchText, captions,
                    footer, data, err, badRows, OnSelected, selId, callback, tapCol, tapI >>

\* list.OnSelected: the id is past the view, the deferred RUnlock runs
UiSelStale ==
    /\ pc.ui = "sel.locked"
    /\ selId >= Len(cellsFiltered)
    /\ mu' = [mu EXCEPT !.r = mu.r - 1]
    /\ pc' = [pc EXCEPT !.ui = "idle"]
    /\ OnSelected' = "unread"
    /\ selId' = NoCall
    /\ UNCHANGED << lockFrameText, layout, cells, cellsFiltered, sortCols, searchText, captions,
                    footer, data, err, badRows, callback, tapCol, tapI >>

\* list.OnSelected: w.OnSelected(idx) is called with the read lock held
UiSelCallback ==
    /\ pc.ui = "sel.locked"
    /\ selId < Len(cellsFiltered)
    /\ callback' = cellsFiltered[selId + 1].idx
    /\ \/ /\ OnSelected = "set"
          /\ pc' = [pc EXCEPT !.ui = "sel.RUnlock"]
          /\ mu' = mu
       \/ /\ OnSelected = "calls SetData"
          /\ pc' = [pc EXCEPT !.ui = "SetData.Lock"]
          /\ CallLock("ui")
       \/ /\ OnSelected = "calls Refresh"
          /\ pc' = [pc EXCEPT !.ui = "cb.Refresh"]
          /\ mu' = mu
    /\ UNCHANGED << lockFrameText, layout, cells, cellsFiltered, sortCols, searchText, captions,
                    footer, data, err, badRows, OnSelected, selId, tapCol, tapI >>

\* the host callback's Refresh: the list reads the row count under the
\* read lock, and the callback returns
UiCbRefresh ==
    /\ pc.ui = "cb.Refresh"
    /\ CanRLock
    /\ pc' = [pc EXCEPT !.ui = "sel.RUnlock"]
    /\ UNCHANGED << lockFrameText, layout, cells, cellsFiltered, sortCols, searchText, captions,
                    footer, data, err, badRows, OnSelected, selId, callback, tapCol, tapI, mu >>

\* list.OnSelected: the host callback has returned, the deferred RUnlock runs
UiSelReturn ==
    /\ pc.ui = "sel.RUnlock"
    /\ mu' = [mu EXCEPT !.r = mu.r - 1]
    /\ pc' = [pc EXCEPT !.ui = "idle"]
    /\ callback' = NoCall
    /\ OnSelected' = "unread"
    /\ selId' = NoCall
    /\ UNCHANGED << lockFrameText, layout, cells, cellsFiltered, sortCols, searchText, captions,
                    footer, data, err, badRows, tapCol, tapI >>

\* the other goroutine calls SetData, which calls w.mu.Lock()
BgSetData ==
    /\ pc.bg = "idle"
    /\ pc' = [pc EXCEPT !.bg = "SetData.Lock"]
    /\ CallLock("bg")
    /\ UNCHANGED << lockFrameText, layout, cells, cellsFiltered, sortCols, searchText, captions,
                    footer, data, err, badRows, OnSelected, selId, callback, tapCol, tapI >>

\* SetData called by t: w.mu.Lock() returns
SdAcquire(t) ==
    /\ pc[t] = "SetData.Lock"
    /\ CanLock(t)
    /\ mu' = [mu EXCEPT !.w = t, !.ww = mu.ww \ {t}]
    /\ pc' = [pc EXCEPT ![t] = "SetData.locked"]
    /\ UNCHANGED << lockFrameText, layout, cells, cellsFiltered, sortCols, searchText, captions,
                    footer, data, err, badRows, OnSelected, selId, callback, tapCol, tapI >>

\* SetData called by t: the critical section and the deferred Unlock
SdBody(t) ==
    /\ pc[t] = "SetData.locked"
    /\ \E D \in HistInputs :
        /\ SetDataError(D) \/ SetDataOk(D)
        /\ badRows' = { i \in 1..Len(D) : Len(D[i]) # numCols }
    /\ mu' = Unlock(mu)
    /\ pc' = [pc EXCEPT ![t] = "SetData.Refresh"]
    /\ UNCHANGED << op, newArgs, itemText, tapRun, shellCount, refreshes,
                    selId, callback, tapCol, tapI, pendingFooter >>

\* SetData called by t: the deferred w.body.Refresh(), in which the list
\* reads the row count under the read lock, and the return
SdRefresh(t) ==
    /\ pc[t] = "SetData.Refresh"
    /\ CanRLock
    /\ pc' = [pc EXCEPT ![t] = IF t = "ui" THEN "sel.RUnlock" ELSE "idle"]
    /\ err' = FALSE
    /\ badRows' = {}
    /\ UNCHANGED << lockFrameText, layout, cells, cellsFiltered, sortCols, searchText, captions,
                    footer, data, OnSelected, selId, callback, tapCol, tapI, mu >>

InitLock ==
    \E idx \in 0..(Len(ConfigColumns) - 1), dir \in {sortOff, SortAsc, SortDesc} :
        New(ConfigColumns, idx, dir)

NextLock ==
    \/ \E s \in SearchTexts : UiSearch(s)
    \/ \E col \in 1..numCols : UiTapBegin(col)
    \/ UiTapStep
    \/ UiTapEnd
    \/ UiAfsAcquire
    \/ UiAfsBody
    \/ UiAfsFooter
    \/ UiAfsSetText
    \/ UiAfsRefresh
    \/ \E id \in 0..MaxHistRows, handler \in HostCallbacks : UiSelect(id, handler)
    \/ UiSelAcquire
    \/ UiSelStale
    \/ UiSelCallback
    \/ UiCbRefresh
    \/ UiSelReturn
    \/ BgSetData
    \/ \E t \in Threads : SdAcquire(t)
    \/ \E t \in Threads : SdBody(t)
    \/ \E t \in Threads : SdRefresh(t)

SpecLock == InitLock /\ [][NextLock]_vars

\* the table of the example scenario: three columns of automatic width
ExampleColumns ==
    << [Title |-> <<70, 105, 114, 115, 116>>, Width |-> 0],
       [Title |-> <<83, 101, 99, 111, 110, 100>>, Width |-> 0],
       [Title |-> <<84, 104, 105, 114, 100>>, Width |-> 0] >>

\* the rows Joker, Bruce Wayne and alpha of the example scenario
ExampleData ==
    << << <<74, 111, 107, 101, 114>>,
          <<80, 101, 116, 101, 114, 32, 80, 97, 114, 107, 101, 114>>,
          <<83, 117, 112, 101, 114, 109, 97, 110>> >>,
       << <<66, 114, 117, 99, 101, 32, 87, 97, 121, 110, 101>>,
          <<80, 101, 110, 103, 117, 105, 110>>,
          <<68, 114, 46, 32, 68, 111, 111, 109>> >>,
       << <<97, 108, 112, 104, 97>>,
          <<98, 114, 97, 118, 111>>,
          <<99, 104, 97, 114, 108, 105, 101>> >> >>

\* data sets handed to the example table: none, the example rows, and a
\* row that is one column short
ExampleInputs == { <<>>, ExampleData, << << <<98>>, <<98>> >> >> }

\* search texts typed into the example table: "", "o" and "W"
ExampleSearchTexts == { <<>>, <<111>>, <<87>> }

InitExample ==
    \E idx \in 0..(Len(ExampleColumns) - 1), dir \in {sortOff, SortAsc, SortDesc} :
        New(ExampleColumns, idx, dir)

ExampleSetData == SetDataFrom(ExampleInputs)

NextExample ==
    \/ ExampleSetData
    \/ \E s \in ExampleSearchTexts : SearchChanged(s)
    \/ \E col \in 1..numCols : Tap(col)
    \/ \E id \in 0..MaxRows, handler \in {"nil", "set"} : RowSelected(id, handler)
    \/ Returned

SpecExample == InitExample /\ [][NextExample]_vars

\* the header click taken one loop iteration at a time, SetData free to run
\* in between
NextSteps ==
    \/ SetData
    \/ \E s \in SearchTexts : SearchChanged(s)
    \/ \E col \in 1..numCols : TapBegin(col)
    \/ TapStep
    \/ TapFinish
    \/ \E id \in 0..MaxRows, handler \in {"nil", "set"} : RowSelected(id, handler)
    \/ Returned

SpecSteps == Init /\ [][NextSteps]_vars

\* the table with the run of header clicks and the render shell's row count
\* kept as history, on small data sets
NextHist ==
    \/ HistSetData
    \/ \E s \in SearchTexts : SearchChanged(s)
    \/ \E col \in 1..numCols : HistTap(col)
    \/ \E id \in 0..MaxRows, handler \in {"nil", "set"} : RowSelected(id, handler)
    \/ ShellLength
    \/ \E id \in 0..MaxHistRows : UpdateItem(id)
    \/ Layout
    \/ Returned

SpecHist == Init /\ [][NextHist]_vars

\* the table and a caller that keeps the rows value it handed to SetData and
\* writes to its cells afterwards, on small data sets
NextAlias ==
    \/ HistSetData
    \/ \E s \in SearchTexts : SearchChanged(s)
    \/ \E col \in 1..numCols : Tap(col)
    \/ \E i \in 1..MaxHistRows, c \in 1..numCols, v \in CellValues : CallerWrites(i, c, v)
    \/ Returned

SpecAlias == Init /\ [][NextAlias]_vars

\* ---------------------------------------------------------------- helpers
View == cellsFiltered

ViewIdx == { View[i].idx : i \in 1..Len(View) }

\* v is ordered by column c in direction dir under cmp.Compare
OrderedBy(v, c, dir) ==
    \A i \in 1..(Len(v) - 1) :
        /\ dir = SortAsc => Compare(v[i].columns[c], v[i + 1].columns[c]) <= 0
        /\ dir = SortDesc => Compare(v[i].columns[c], v[i + 1].columns[c]) >= 0

OrderedBySortState(v) == \A c \in 1..numCols : OrderedBy(v, c, sortCols[c])

\* the footer text for k shown rows out of n
FooterText(k, n) ==
    IF k < n THEN << k, "of", n, "entries (filtered)" >> ELSE << n, "entries" >>

\* the view applyFilterAndSort produces in this state for the empty search text
ViewWithEmptyFilter == filterSelection(applySortCells(cells, sortCols), <<>>)

\* ----------------------------------------------------------------- claims
\* C1: index stability. Every row of the view carries as idx the position
\* its columns have in the data of the most recent successful SetData.
IndexStability ==
    \A i \in 1..Len(View) :
        /\ View[i].idx \in 0..(Len(data) - 1)
        /\ data[View[i].idx + 1] = View[i].columns

\* C1 witness: after a header click under a search text the view is a
\* reordered, proper part of the data
IndexStabilityWitness ==
    /\ op = "Tap"
    /\ searchText # <<>>
    /\ Len(View) >= 2
    /\ Len(View) < Len(data)
    /\ View[1].idx > View[2].idx

\* C2: selecting view row v, in range and with a host callback set, calls
\* the callback with the idx of the row shown at v, which is the position
\* of that row in the most recently supplied data.
SelectionReportsOriginalIndex ==
    (op = "Select" /\ OnSelected = "set" /\ selId \in 0..(Len(View) - 1)) =>
        /\ callback = View[selId + 1].idx
        /\ callback \in 0..(Len(data) - 1)
        /\ data[callback + 1] = View[selId + 1].columns

\* C2 witness: a selection in a filtered, reordered view where the original
\* index differs from the view index
SelectionWitness ==
    /\ op = "Select"
    /\ OnSelected = "set"
    /\ selId \in 0..(Len(View) - 1)
    /\ callback # selId
    /\ searchText # <<>>
    /\ Len(View) < Len(cells)

\* C3: a SetData whose argument holds a row of the wrong width returns an
\* error and leaves row store, view, sort state, layout and footer as they
\* were, wherever the bad rows are.
SetDataErrorChangesNothing ==
    [][(op' = "SetData" /\ badRows' # {}) =>
          (err' /\ UNCHANGED << cells, cellsFiltered, sortCols, layout, footer >>)]_vars

\* C3 witness: a rejected SetData whose first row is good, on a table that
\* shows a filtered view
SetDataErrorWitness ==
    /\ op = "SetData"
    /\ err
    /\ badRows # {}
    /\ 1 \notin badRows
    /\ Len(cells) > 0
    /\ Len(View) < Len(cells)

\* C4 (as claimed): after a successful SetData the view holds every row of
\* the new data in the order of the current sort state.
SetDataViewSorted ==
    (op = "SetData" /\ ~err) =>
        /\ ViewIdx = 0..(Len(data) - 1)
        /\ OrderedBySortState(View)

\* C5 (as claimed): after a successful SetData under a non-empty search
\* text the view is the new data filtered by that text and the footer
\* reports the filtered count.
SetDataViewFiltered ==
    (op = "SetData" /\ ~err /\ searchText # <<>>) =>
        /\ ViewIdx = { i \in 0..(Len(data) - 1) :
                         \E c \in 1..numCols :
                            Contains(ToLower(data[i + 1][c]), ToLower(searchText)) }
        /\ footer = FooterText(Cardinality(ViewIdx), Len(data))

\* C6: after every header click and every search-text change the view is
\* ordered by the active sort column under ordinal comparison, ascending or
\* descending as the sort state says.
ViewOrderedAfterClickOrSearch ==
    op \in {"Tap", "Search"} => OrderedBySortState(View)

\* C6 witness: a header click that leaves the second column descending and
\* a view whose keys in that column strictly fall
ViewOrderedWitness ==
    /\ op = "Tap"
    /\ sortCols[2] = SortDesc
    /\ Len(View) >= 2
    /\ Compare(View[1].columns[2], View[Len(View)].columns[2]) > 0

\* C7 (as claimed): after a header click two view rows with equal keys in
\* the active sort column stand in increasing idx order.
TiesKeepOriginalOrder ==
    op = "Tap" =>
        \A c \in 1..numCols : sortCols[c] # sortOff =>
            \A i, j \in 1..Len(View) :
                (i < j /\ View[i].columns[c] = View[j].columns[c]) => View[i].idx < View[j].idx

\* C8: the view produced with the search text is the view produced with
\* the empty text under the same sort state with the non-matching rows
\* removed; the rows that remain keep their relative order.
FilterNeverReorders ==
    op \in {"Tap", "Search"} =>
        View = SelectSeq(ViewWithEmptyFilter,
                         LAMBDA r : \E c \in 1..numCols :
                            Contains(ToLower(r.columns[c]), ToLower(searchText)))

\* C8 witness: a search that drops the middle row of three and keeps two
\* rows that the sort has put in the reverse of their input order
FilterNeverReordersWitness ==
    /\ op = "Search"
    /\ searchText # <<>>
    /\ Len(cells) = 3
    /\ Len(View) = 2
    /\ View[1] = cells[1]
    /\ View[2] = cells[3]
    /\ View[1].idx > View[2].idx

EmptyFilterKeepsEveryRow ==
    (op = "Search" /\ searchText = <<>>) =>
        /\ Len(View) = Len(cells)
        /\ \A i \in 1..Len(View) : View[i] = cells[i]

\* C10 witness: the empty text is set on a table of three rows, one of
\* which the text "aB" would drop
EmptyFilterWitness ==
    /\ op = "Search"
    /\ searchText = <<>>
    /\ Len(cells) = 3
    /\ Len(View) = 3
    /\ \E i \in 1..3 : \A c \in 1..numCols : ~Contains(ToLower(cells[i].columns[c]), <<97, 98>>)

\* ------------------------------------------------------------ C11
\* the prefixes of a text, the empty text and the text itself among them
Prefixes(s) == { SubSeq(s, 1, k) : k \in 0..Len(s) }

\* original indices of the view applyFilterAndSort computes for a search
\* text on the current row store and sort state
ViewIdxFor(search) ==
    LET v == filterSelection(applySortCells(cells, sortCols), search)
    IN  { v[i].idx : i \in 1..Len(v) }

\* C11: filter monotonicity. On the same data and sort state, the rows
\* shown for a search text F2 are among the rows shown for any prefix F1 of
\* F2; after a search or a header click the view is the one computed for
\* the text of the search bar, so it lies within the view of each prefix.
FilterMonotone ==
    /\ \A F2 \in SearchTexts : \A F1 \in Prefixes(F2) : ViewIdxFor(F2) \subseteq ViewIdxFor(F1)
    /\ op \in {"Search", "Tap"} =>
        /\ ViewIdx = ViewIdxFor(searchText)
        /\ \A F1 \in Prefixes(searchText) : ViewIdx \subseteq ViewIdxFor(F1)

\* C11 witness: the search for "aB" shows some rows but not all; the prefix
\* "a" shows the same rows and the prefix "" shows more
FilterMonotoneWitness ==
    /\ op = "Search"
    /\ searchText = <<97, 66>>
    /\ ViewIdx # {}
    /\ ViewIdx = ViewIdxFor(<<97>>)
    /\ ViewIdx # ViewIdxFor(<<>>)
    /\ ViewIdxFor(<<>>) = { cells[i].idx : i \in 1..Len(cells) }

\* ------------------------------------------------------------ C12
\* C12: single-column sort invariant. In every state, the states between
\* two iterations of the loop of a header click included (a SetData running
\* on another goroutine reads the sort state there), at most one entry of
\* sortCols is different from off.
AtMostOneSortColumn ==
    Cardinality({ c \in 1..Len(sortCols) : sortCols[c] # sortOff }) <= 1

\* ------------------------------------------------------- C13 to C15
\* the direction a click gives a column that has direction dir
ClickedDir(dir) ==
    IF dir = sortOff THEN SortAsc
    ELSE IF dir = SortAsc THEN SortDesc
    ELSE SortAsc

\* C13: sort cycle. A click on the header of column C moves C from off to
\* ascending, from ascending to descending and from descending to
\* ascending; after any number of clicks in a row on C, C is not off; and a
\* column that was sorted becomes off only in a click on another column.
SortCycle ==
    /\ [](tapRun.n >= 1 => sortCols[tapRun.col] # sortOff)
    /\ [][/\ op' = "Tap" => sortCols'[tapCol'] = ClickedDir(sortCols[tapCol'])
          /\ \A c \in 1..numCols :
                (sortCols[c] # sortOff /\ sortCols'[c] = sortOff)
                    => (op' = "Tap" /\ tapCol' # c)]_vars

\* C13 witness: the third click in a row on column 1, which was off before
\* the first of them, has gone off, asc, desc, asc
SortCycleWitness ==
    /\ op = "Tap"
    /\ tapCol = 2
    /\ tapRun = [col |-> 2, n |-> 3, from |-> sortOff]
    /\ sortCols = << sortOff, SortAsc >>

\* C14 as claimed: after three clicks in a row on the same header the
\* column is ascending.
ThreeClicksAscending ==
    tapRun.n = 3 => sortCols[tapRun.col] = SortAsc

\* C14: after three clicks in a row on the same header the column is
\* ascending if it was off or descending before the first click, and
\* descending if it was ascending before the first click.
ThreeClicksByStart ==
    tapRun.n = 3 =>
        sortCols[tapRun.col] = (IF tapRun.from = SortAsc THEN SortDesc ELSE SortAsc)

\* C14 witness: column 0, ascending since New, has been clicked three
\* times in a row and is descending
ThreeClicksWitness ==
    /\ op = "Tap"
    /\ tapRun = [col |-> 1, n |-> 3, from |-> SortAsc]
    /\ sortCols = << SortDesc, sortOff >>

\* C15: a click on the header of column C sets every other column to off,
\* and a column C that was off becomes ascending.
ClickSetsOthersOff ==
    [][op' = "Tap" =>
        /\ \A d \in 1..numCols : d # tapCol' => sortCols'[d] = sortOff
        /\ sortCols[tapCol'] = sortOff => sortCols'[tapCol'] = SortAsc]_vars

\* C15 witness: the first click on column 1, which was off while column 0
\* was sorted, on a table holding rows
ClickSetsOthersOffWitness ==
    /\ op = "Tap"
    /\ tapRun = [col |-> 2, n |-> 1, from |-> sortOff]
    /\ sortCols = << sortOff, SortAsc >>
    /\ Len(cells) >= 2

\* ------------------------------------------------------- C16 to C18
\* C16: initial sort state. A table constructed without an explicit initial
\* sort (SortedColumnIndex and SortedColumnDirection left at their zero
\* values) has column 0 ascending and every other column off; a table
\* constructed with an in-range SortedColumnIndex and a direction has
\* exactly that column in that direction and every other column off.
InitialSortState ==
    (op = "New" /\ ~err) =>
        LET idx == newArgs.SortedColumnIndex
            dir == newArgs.SortedColumnDirection
        IN  /\ (idx = 0 /\ dir = sortOff) =>
                /\ sortCols[1] = SortAsc
                /\ \A c \in 2..numCols : sortCols[c] = sortOff
            /\ dir # sortOff =>
                /\ sortCols[idx + 1] = dir
                /\ \A c \in 1..numCols : c # idx + 1 => sortCols[c] = sortOff

\* C16 witness: New with SortedColumnIndex 1 and SortDesc has returned
InitialSortStateWitness ==
    /\ op = "New"
    /\ ~err
    /\ newArgs.SortedColumnIndex = 1
    /\ newArgs.SortedColumnDirection = SortDesc
    /\ sortCols = << sortOff, SortDesc >>

\* C17: construction fails exactly on an invalid configuration. New returns
\* an error and no table when the configuration has no columns or its
\* initial sort index lies outside [0, number of columns); on every other
\* configuration it returns the table for the configured columns.
ConstructionFailsOnInvalidConfig ==
    op = "New" =>
        LET n == Len(newArgs.Columns)
            idx == newArgs.SortedColumnIndex
        IN  /\ err <=> (n = 0 \/ idx < 0 \/ idx >= n)
            /\ err => (numCols = 0 /\ headerCells = <<>> /\ sortCols = <<>> /\ layout = <<>>)
            /\ ~err => (numCols = n /\ Len(headerCells) = n /\ Len(sortCols) = n /\ Len(layout) = n)

\* C17 witness: New is handed two columns and the initial sort index 2 and
\* returns the error
ConstructionFailsWitness ==
    /\ op = "New"
    /\ err
    /\ Len(newArgs.Columns) = 2
    /\ newArgs.SortedColumnIndex = 2
    /\ numCols = 0

\* C18: SetData leaves the sort state unchanged, whether it stores the data
\* or rejects it.
SetDataKeepsSortState ==
    [][op' = "SetData" => sortCols' = sortCols]_vars

\* C18 witness: SetData has stored three rows in a table sorted descending
\* by column 1
SetDataKeepsSortStateWitness ==
    /\ op = "SetData"
    /\ ~err
    /\ Len(cells) = 3
    /\ sortCols = << sortOff, SortDesc >>

\* ------------------------------------------------------- C19 and C20
\* C19: stale-count race. The render shell has read the row count, the view
\* has shrunk since, and the shell asks for a row at or past the end of the
\* view: the update-item callback returns without a fault and without
\* setting any label text.
StaleUpdateWritesNothing ==
    (op = "Update" /\ selId >= Len(View)) => itemText = NoWrite

\* C19 witness: the shell read two or more rows, the view has shrunk to
\* fewer but is not empty, and the callback has run for a row below the old
\* count and past the view
StaleUpdateWitness ==
    /\ op = "Update"
    /\ Len(View) >= 1
    /\ selId >= Len(View)
    /\ selId < shellCount
    /\ itemText = NoWrite

\* C20: a selection with a view index at or past the end of the view, as
\* the list reports one after the view has shrunk, is a silent no-op: the
\* host callback is not invoked and there is no fault.
StaleSelectionSilent ==
    (op = "Select" /\ selId >= Len(View)) => callback = NoCall

\* C20 witness: a host callback is set, the shell read a row count above
\* the present view, and list.OnSelected has run for a row in between
StaleSelectionWitness ==
    /\ op = "Select"
    /\ OnSelected = "set"
    /\ Len(View) >= 1
    /\ selId >= Len(View)
    /\ selId < shellCount
    /\ callback = NoCall

\* ------------------------------------------------------------ C22
\* C22: atomic recompute. Whenever no thread holds the exclusive lock the
\* view is the row store filtered by the current search text, in the order
\* the current sort state gives: a reader sees neither a sort state from
\* after a click with a view from before it nor a new row store with an
\* old view.
ViewConsistentWithStoreAndSort ==
    /\ ViewIdx = { cells[i].idx : i \in { j \in 1..Len(cells) : rowMatches(cells[j], searchText) } }
    /\ \A i \in 1..Len(View) : \E j \in 1..Len(cells) : cells[j] = View[i]
    /\ OrderedBySortState(View)

\* ------------------------------------------------------- C24 and C25
\* C24: after a search-text change the footer reads "N entries" when the
\* view and the row store both hold N rows, and "K of N entries (filtered)"
\* when the view holds K rows and the row store N > K.
FooterAfterSearch ==
    op = "Search" =>
        /\ Len(View) = Len(cells) => footer = << Len(cells), "entries" >>
        /\ Len(View) < Len(cells) =>
                footer = << Len(View), "of", Len(cells), "entries (filtered)" >>

\* C24 witness: a search has kept one row of three
FooterAfterSearchWitness ==
    /\ op = "Search"
    /\ Len(View) = 1
    /\ Len(cells) = 3
    /\ footer = << 1, "of", 3, "entries (filtered)" >>

\* C25: header captions track the sort state. After a header click the
\* caption of a column is its title followed by the ascending glyph iff the
\* column is ascending, by the descending glyph iff it is descending, and
\* the bare title iff it is off.
CaptionsTrackSortState ==
    op = "Tap" =>
        \A c \in 1..numCols :
            /\ captions[c] = headerCells[c] \o characterSortAsc <=> sortCols[c] = SortAsc
            /\ captions[c] = headerCells[c] \o characterSortDesc <=> sortCols[c] = SortDesc
            /\ captions[c] = headerCells[c] <=> sortCols[c] = sortOff

\* C25 witness: a click on column 1 has made it descending
CaptionsWitness ==
    /\ op = "Tap"
    /\ tapCol = 2
    /\ sortCols = << sortOff, SortDesc >>
    /\ captions = << headerCells[1], headerCells[2] \o characterSortDesc >>

\* ------------------------------------------------------- C29 and C30
\* C29: the view is a sub-collection of the row store. Every row of
\* cellsFiltered is, idx and columns, a row of cells, no row is in the view
\* twice, and the view is no longer than the row store.
ViewWithinRowStore ==
    /\ \A i \in 1..Len(View) : \E j \in 1..Len(cells) : cells[j] = View[i]
    /\ \A i, j \in 1..Len(View) : i # j => View[i].idx # View[j].idx
    /\ Len(View) <= Len(cells)

\* C29 witness: a search has kept two of three rows, not the first two of
\* the data
ViewWithinRowStoreWitness ==
    /\ op = "Search"
    /\ Len(cells) = 3
    /\ Len(View) = 2
    /\ ViewIdx # {0, 1}

\* C30: history independence. The view is a function of the data of the
\* last successful SetData, the search text and the sort state alone: a
\* step that leaves these three as they are leaves the view as it is.
ViewDependsOnDataTextSortOnly ==
    [][(data' = data /\ searchText' = searchText /\ sortCols' = sortCols)
            => cellsFiltered' = cellsFiltered]_vars

\* ------------------------------------------------------------ C26
\* C26: every SetData call, whether it stores the data or returns the
\* dimension error, makes exactly one refresh request to the list before it
\* returns.
SetDataRefreshesOnce ==
    op = "SetData" => refreshes = 1

\* C26 witness: SetData has returned the error on a table that holds rows
SetDataRefreshesOnceWitness ==
    /\ op = "SetData"
    /\ err
    /\ Len(cells) >= 1
    /\ refreshes = 1

\* ------------------------------------------------------- C27 and C28
\* the original indices of the rows of v, in the order of v
IdxSeq(v) == [i \in 1..Len(v) |-> v[i].idx]

\* the example table holds the example rows and is sorted ascending by column 0
ExampleSortedByFirst ==
    /\ data = ExampleData
    /\ sortCols = << SortAsc, sortOff, sortOff >>

\* C27 as claimed: with the example rows under the ascending sort on
\* column 0, the view shows the alpha row, the Bruce Wayne row and the
\* Joker row, original indices 2, 1, 0.
ExampleViewOrderAsClaimed ==
    (ExampleSortedByFirst /\ Len(View) = 3) => IdxSeq(View) = << 2, 1, 0 >>

\* C27: with the example rows under the ascending sort on column 0, the
\* row store is in ordinal order, upper case in front of lower case: the
\* Bruce Wayne row, the Joker row, the alpha row, original indices 1, 0, 2.
\* That is the view after a search for "" or a header click; right after
\* SetData the view is in the order of the data, 0, 1, 2.
ExampleViewOrder ==
    ExampleSortedByFirst =>
        /\ IdxSeq(cells) = << 1, 0, 2 >>
        /\ (op \in {"Search", "Tap"} /\ searchText = <<>>) => IdxSeq(View) = << 1, 0, 2 >>
        /\ (op = "SetData" /\ ~err) => IdxSeq(View) = << 0, 1, 2 >>

\* C27 witness: the empty search on the example rows sorted by column 0
\* shows Bruce Wayne, Joker, alpha
ExampleViewOrderWitness ==
    /\ ExampleSortedByFirst
    /\ op = "Search"
    /\ searchText = <<>>
    /\ View[1].columns[1] = <<66, 114, 117, 99, 101, 32, 87, 97, 121, 110, 101>>
    /\ View[2].columns[1] = <<74, 111, 107, 101, 114>>
    /\ View[3].columns[1] = <<97, 108, 112, 104, 97>>

\* C28 as claimed: on the example rows sorted ascending by column 0 the
\* search text "o" shows the Bruce Wayne row and the alpha row, and the
\* footer reads "2 of 3 entries (filtered)".
ExampleFilterAsClaimed ==
    (ExampleSortedByFirst /\ op = "Search" /\ searchText = <<111>>) =>
        /\ IdxSeq(View) = << 1, 2 >>
        /\ footer = << 2, "of", 3, "entries (filtered)" >>

\* C28: on the example rows sorted ascending by column 0 the search text
\* "o" keeps all three rows (Joker, Dr. Doom and bravo contain it): the
\* view is the Bruce Wayne row, the Joker row, the alpha row, and the
\* footer reads "3 entries".
ExampleFilter ==
    (ExampleSortedByFirst /\ op = "Search" /\ searchText = <<111>>) =>
        /\ IdxSeq(View) = << 1, 0, 2 >>
        /\ footer = << 3, "entries" >>

\* C28 witness: "o" has been typed into the example table
ExampleFilterWitness ==
    /\ ExampleSortedByFirst
    /\ op = "Search"
    /\ searchText = <<111>>
    /\ Len(View) = 3
    /\ footer = << 3, "entries" >>

\* ------------------------------------------------------- C21 and C23
\* C21: lock discipline. Every step that writes cells, cellsFiltered or
\* sortCols is taken by the thread that holds the write lock, and every
\* read of them (the footer update among them) by a thread that holds the
\* write lock or a read lock.
LockDiscipline ==
    [][/\ (cells' # cells \/ cellsFiltered' # cellsFiltered \/ sortCols' # sortCols)
            => \E t \in Threads : mu.w = t /\ pc'[t] # pc[t]
       /\ \A t \in Threads :
            (pc[t] \in {"afs.updateFooter", "sel.locked"} /\ pc'[t] # pc[t])
                => (mu.w = t \/ mu.r >= 1)]_vars

\* a thread waits for the lock in a cycle: the event thread asks for the
\* write lock while it holds a read lock itself, or asks for a read lock
\* behind a writer that waits for the event thread's read lock
BlockedForever ==
    \/ pc.ui = "SetData.Lock" /\ mu.r >= 1
    \/ pc.ui = "cb.Refresh" /\ mu.r >= 1 /\ mu.ww # {}

\* C23: every operation returns. In no interleaving of SetData, search
\* change, header click and row selection, the host callback calling
\* SetData or Refresh included, is a thread left blocked forever on w.mu.
EveryOperationReturns == ~BlockedForever

\* ------------------------------------------------------------ C31
\* the active sort column holds a key twice, in rows that are not in the
\* order of the data
TiedRowsOutOfDataOrder ==
    \E c \in 1..numCols, i \in 1..(Len(cells) - 1) :
        /\ sortCols[c] # sortOff
        /\ cells[i].columns[c] = cells[i + 1].columns[c]
        /\ cells[i].idx > cells[i + 1].idx

\* C31: sort idempotence. A search-text change under an unchanged sort
\* state sorts the row store again by the same column and direction and
\* leaves its order as it is, duplicate keys included; a view that was in
\* the order of the row store is the same view again when the text is the
\* same, and keeps the relative order of its rows when it is not.
SortIsIdempotent ==
    [][op' = "Search" =>
        /\ cells' = cells
        /\ cellsFiltered = filterSelection(cells, searchText) =>
            /\ searchText' = searchText => cellsFiltered' = cellsFiltered
            /\ \A i, j \in 1..Len(cellsFiltered) : \A k, l \in 1..Len(cellsFiltered') :
                (i < j /\ cellsFiltered'[k] = cellsFiltered[i] /\ cellsFiltered'[l] = cellsFiltered[j])
                    => k < l]_vars

\* C31 witness: a search has run on three rows of which two tie on the
\* sort column and stand in the order an earlier sort gave them
SortIsIdempotentWitness ==
    /\ op = "Search"
    /\ Len(cells) = 3
    /\ Len(View) >= 2
    /\ TiedRowsOutOfDataOrder

\* ------------------------------------------------------------ C33
\* C33: a header click changes only the order of the view: the set of
\* original indices in the view right after the click is the set right
\* before it.
HeaderClickKeepsViewRows ==
    [][op' = "Tap" => { cellsFiltered'[i].idx : i \in 1..Len(cellsFiltered') } = ViewIdx]_vars

\* ------------------------------------------------------------ C35
\* C35: the search bar's filter is a disjunction over the columns. The view
\* a search-text change or a header click produces holds exactly the rows
\* of the row store of which at least one column contains the search text,
\* case ignored, in the order of the row store; a row none of whose columns
\* contains the text is not in it.
SearchBarKeepsAnyColumnMatch ==
    op \in {"Search", "Tap"} =>
        /\ View = SelectSeq(cells, LAMBDA r :
                    \E c \in 1..numCols : Contains(ToLower(r.columns[c]), ToLower(searchText)))
        /\ \A i \in 1..Len(View) :
                ~(\A c \in 1..numCols : ~Contains(ToLower(View[i].columns[c]), ToLower(searchText)))

\* C35 witness: a header click under the search text "aB" shows a row that
\* holds the text in its second column only, and leaves out another row
SearchBarWitness ==
    /\ op = "Tap"
    /\ searchText = <<97, 66>>
    /\ Len(View) < Len(cells)
    /\ \E i \in 1..Len(View) :
        /\ ~Contains(ToLower(View[i].columns[1]), <<97, 98>>)
        /\ Contains(ToLower(View[i].columns[2]), <<97, 98>>)

\* ------------------------------------------------------- C36 and C39
\* C36: the row store is a permutation of the last supplied data. The idx
\* values in cells are 0..N-1, each once, N the number of rows of the most
\* recent successful SetData, and every row holds the columns of its idx.
RowStoreIsPermutation ==
    /\ Len(cells) = Len(data)
    /\ { cells[i].idx : i \in 1..Len(cells) } = 0..(Len(data) - 1)
    /\ \A i \in 1..Len(cells) : cells[i].columns = data[cells[i].idx + 1]

\* C36 witness: after a header click the row store holds the three rows of
\* the data in another order than the data
RowStoreIsPermutationWitness ==
    /\ op = "Tap"
    /\ Len(data) = 3
    /\ IdxSeq(cells) # << 0, 1, 2 >>

\* C39: a search-text change leaves the sort state and the set of rows of
\* the row store as they are.
SearchKeepsSortAndRows ==
    [][op' = "Search" =>
        /\ sortCols' = sortCols
        /\ { cells'[i] : i \in 1..Len(cells') } = { cells[i] : i \in 1..Len(cells) }
        /\ Len(cells') = Len(cells)]_vars

\* C39 witness: a search for "aB" has filtered a table of three rows
\* sorted descending by column 1
SearchKeepsSortAndRowsWitness ==
    /\ op = "Search"
    /\ searchText = <<97, 66>>
    /\ sortCols = << sortOff, SortDesc >>
    /\ Len(cells) = 3
    /\ Len(View) \in 1..2

\* ------------------------------------------------------------ C32
\* New has returned a table
NewSucceeded == ~(op = "New" /\ err)

\* C32: no operation faults. On a table New has returned, no layout pass
\* has panicked, the column layout holds numCols widths, as many as the
\* containers hold objects, every stored row and the sort state hold
\* numCols entries, and no row read or selection has indexed past the view.
NoOperationFaults ==
    NewSucceeded =>
        /\ op # "panic"
        /\ ~LayoutPanics(layout, numCols)
        /\ Len(layout) = numCols
        /\ Len(sortCols) = numCols
        /\ \A i \in 1..Len(cells) : Len(cells[i].columns) = numCols
        /\ \A i \in 1..Len(cellsFiltered) : Len(cellsFiltered[i].columns) = numCols
        /\ op = "Select" => callback # Fault
        /\ op = "Update" => itemText # << << Fault >> >>

\* C32 witness: a layout pass has run on a table that SetData emptied after
\* the list had shown rows
NoOperationFaultsWitness ==
    /\ op = "Layout"
    /\ Len(data) = 0
    /\ shellCount > 0
    /\ Len(layout) = numCols

\* ------------------------------------------------------------ C34
\* C34: the rows of the table are isolated from the caller after SetData:
\* a change the caller makes to a cell of its own rows value changes neither
\* the rows the view shows nor the rows the filter matches.
RowsIsolatedFromCaller ==
    [][op' = "CallerWrites" =>
        /\ View' = View
        /\ filterSelection(cells', searchText) = filterSelection(cells, searchText)]_vars

\* ------------------------------------------------------------ C37
\* the steps in which a handler calls w.body.Refresh()
RefreshSteps == {"afs.Refresh", "SetData.Refresh"}

\* t holds w.mu: for writing, or for reading as the event thread does from
\* the RLock of the selection handler to its RUnlock
HoldsLock(t) ==
    \/ mu.w = t
    \/ t = "ui" /\ mu.r > 0

\* C37: the list refresh is requested after the exclusive lock is released.
\* A thread that stands at the refresh of SetData, on the error path and on
\* the success path, or of applyFilterAndSort holds no lock and waits for
\* none, so that the row count callback waits for other threads only.
RefreshAfterUnlock ==
    \A t \in Threads :
        pc[t] \in RefreshSteps => ~HoldsLock(t) /\ t \notin mu.ww

\* C37 witness: SetData has rejected its rows on the other goroutine and
\* stands at its refresh while applyFilterAndSort stands at its own
RefreshAfterUnlockWitness ==
    /\ pc.bg = "SetData.Refresh"
    /\ err
    /\ pc.ui = "afs.Refresh"
    /\ mu.w = "none"

\* ------------------------------------------------------------ C38
\* every call issued has returned
Quiescent == \A t \in Threads : pc[t] = "idle"

\* C38: footer consistency at quiescence. Once all concurrently issued
\* SetData calls, search changes and header clicks have returned, the
\* footer a call has set is the text for the final sizes of view and row
\* store.
FooterConsistentAtQuiescence ==
    (Quiescent /\ footer # NoText) => footer = updateFooter(cellsFiltered, cells)

====
